---- MODULE Spec2Model ----
(***************************************************************************)
(* andres::hdf5 (include/andres/hdf5/hdf5.hxx): the wrapper functions      *)
(* createFile, openFile, closeFile, createGroup, openGroup, closeGroup,    *)
(* save<T> and load<T>, each one action, over a model of the HDF5 library  *)
(* state they act on: one container file, its tree of links (groups and    *)
(* datasets) and the table of open identifiers (hid_t).                    *)
(*                                                                         *)
(* Library behaviour assumed (HDF5 1.8 API, the one the 5-argument         *)
(* H5Gcreate / 7-argument H5Dcreate calls of the source select):           *)
(*   - every H5?create/H5?open/H5Dget_* call that succeeds returns a new   *)
(*     identifier that stays open until the matching H5?close;             *)
(*   - a link name can be created once under a parent; creating through a  *)
(*     handle of a file opened H5F_ACC_RDONLY is rejected;                 *)
(*   - the file stays open while any file, group or dataset identifier on  *)
(*     it is open; H5Fcreate(H5F_ACC_TRUNC) of an open file fails;         *)
(*   - H5Dread converts from the stored type to the memory type, clamping  *)
(*     integers that do not fit;                                           *)
(*   - a library call may also fail for reasons outside the program (disk  *)
(*     full, medium gone): F is the set of library calls that fail if the  *)
(*     function reaches them, and once the library fails it goes on        *)
(*     failing, so F is a tail of the calls the function makes. F ranges   *)
(*     over the calls whose status the wrapper tests: H5Fcreate, H5Fopen,  *)
(*     H5Screate_simple, H5Dcreate, H5Dwrite, H5Sget_simple_extent_dims    *)
(*     and H5Dread; H5Gcreate, H5Gopen and H5Dopen fail when the file's    *)
(*     links make them fail.                                               *)
(*                                                                         *)
(* The caller is synchronous: call, res, hit and out record the call that  *)
(* has just returned or thrown, and Return drops the record before the     *)
(* next call.                                                              *)
(***************************************************************************)
EXTENDS Integers, Sequences, FiniteSets, Bags, TLC

VARIABLES
    exists,   \* the container file is on disk
    tree,     \* the file's links: path -> object (group or dataset)
    fmode,    \* access flags the file was opened with, "closed" when not open
    ids,      \* the open library identifiers, as the bag of what they denote
    saved,    \* history: path -> the type and data of the successful save
    call,     \* the call that has just returned or thrown: function, parent
              \* handle, name, T, vector given; NoCall once the caller went on
    res,      \* its outcome: "ok" or the kind of the std::runtime_error
    hit,      \* the library call that failed in it for an outside reason
    out       \* the std::vector<T> of the call after it, for a load

vars == <<exists, tree, fmode, ids, saved, call, res, hit, out>>

\* Bounds of the model.
MaxIds == 4       \* identifiers open at the same time
MaxObjs == 2      \* links in the file
MaxLen == 1       \* elements of a saved vector

Names == {"x"}
Versions == {"HDF5_VERSION_DEFAULT", "HDF5_VERSION_LATEST"}
AccessModes == {"READ_ONLY", "READ_WRITE"}

\* Element types: two specialisations of HDF5Type and one type that falls to
\* the primary template, whose type() throws.
Supported == {"char", "uchar"}
Types == Supported \cup {"bool"}

TypeMin(T) == IF T = "char" THEN -128 ELSE 0
TypeMax(T) == CASE T = "char" -> 127 [] T = "uchar" -> 255 [] OTHER -> 1

\* The values vectors are drawn from: the boundary values of the type.
TypeVals(T) == {TypeMin(T), TypeMax(T)}

Vectors(T) == UNION {[1..n -> TypeVals(T)] : n \in 0..MaxLen}

\* The vector handed to load: empty, or longer than any stored one.
Outs == {<<>>, [i \in 1..(MaxLen + 1) |-> 9]}

\* H5Dread's conversion of a stored value to the memory type.
Convert(from, to, x) ==
    IF from = to THEN x
    ELSE IF x < TypeMin(to) THEN TypeMin(to)
    ELSE IF x > TypeMax(to) THEN TypeMax(to)
    ELSE x

\* A resize that only ever grows the vector.
ResizeGrowOnly(s, n) ==
    [i \in 1..(IF n > Len(s) THEN n ELSE Len(s)) |->
        IF i <= Len(s) THEN s[i] ELSE 0]

\* std::vector<T>::resize(n): keeps the first n elements, value-initialises
\* the new ones.
Resize(s, n) == [i \in 1..n |-> IF i <= Len(s) THEN s[i] ELSE 0]

Zeros(n) == [i \in 1..n |-> 0]

NoLinks == [p \in {} |-> p]

Group == [kind |-> "group", type |-> "none", rank |-> 0, data |-> <<>>]
Dataset(T, r, d) == [kind |-> "dataset", type |-> T, rank |-> r, data |-> d]

\* Files written by other programs may hold entries of any rank.
ForeignTrees ==
    {[p \in {<<"x">>} |-> Dataset("char", r, Zeros(r))] : r \in {0, 2}}

Link(t, p, o) == [q \in DOMAIN t \cup {p} |-> IF q = p THEN o ELSE t[q]]

\* openFile's choice of the H5Fopen flags.
Access(fileAccessMode) ==
    IF fileAccessMode = "READ_WRITE" THEN "H5F_ACC_RDWR" ELSE "H5F_ACC_RDONLY"

\* Identifiers (hid_t). The wrapper never looks at an identifier's number, so
\* the open ones are kept as a bag of descriptions.
Ident(k, p, m) == [kind |-> k, path |-> p, mode |-> m]

FileId(m) == Ident("file", <<>>, m)
GroupId(p, m) == Ident("group", p, m)
DatasetId == Ident("dataset", <<>>, "none")
DataspaceId == Ident("dataspace", <<>>, "none")
DatatypeId == Ident("datatype", <<>>, "none")
PlistId == Ident("plist", <<>>, "none")
NoId == Ident("none", <<>>, "none")

Open(t, d) == t (+) SetToBag({d})

Close(t, d) == t (-) SetToBag({d})

\* The handles the caller holds: those the wrapper returned and it has not
\* closed.
Handles == {d \in BagToSet(ids) : d.kind \in {"file", "group"}}

\* The file stays open while a file, group or dataset identifier is.
StillOpen(t, m) ==
    IF \E d \in BagToSet(t) : d.kind \in {"file", "group", "dataset"}
    THEN m ELSE "closed"

Call(f, h, n, T, o) == [op |-> f, h |-> h, n |-> n, T |-> T, o |-> o]

\* The path a call addresses: the parent handle's, then the name.
At(c) == Append(c.h.path, c.n)

\* The tails of the library calls a function makes, first to last.
Tails(calls) ==
    {{calls[i] : i \in k..Len(calls)} : k \in 1..(Len(calls) + 1)}

NoCall == Call("none", NoId, "", "none", <<>>)

Init ==
    /\ exists \in BOOLEAN
    /\ tree \in (IF exists THEN ForeignTrees ELSE {NoLinks})
    /\ fmode = "closed"
    /\ ids = EmptyBag
    /\ saved = NoLinks
    /\ call = NoCall
    /\ res = "ok"
    /\ hit = "none"
    /\ out = <<>>

\* The version property list of createFile and openFile: H5Pcreate, with no
\* H5Pclose.
WithVersion(t, ver) ==
    IF ver = "HDF5_VERSION_LATEST" THEN Open(t, PlistId) ELSE t

CreateFile(ver, F) ==
    /\ call' = Call("createFile", NoId, "", "none", <<>>)
    /\ out' = <<>>
    /\ hit' = IF "H5Fcreate" \in F THEN "H5Fcreate" ELSE "none"
    /\ IF "H5Fcreate" \in F \/ fmode # "closed"
       THEN /\ res' = "CreationError"
            /\ ids' = WithVersion(ids, ver)
            /\ UNCHANGED <<exists, tree, fmode, saved>>
       ELSE /\ res' = "ok"
            /\ ids' = Open(WithVersion(ids, ver), FileId("H5F_ACC_RDWR"))
            /\ exists' = TRUE
            /\ tree' = NoLinks
            /\ fmode' = "H5F_ACC_RDWR"
            /\ saved' = NoLinks

OpenFile(mode, ver, F) ==
    /\ call' = Call("openFile", NoId, "", "none", <<>>)
    /\ out' = <<>>
    /\ hit' = IF "H5Fopen" \in F THEN "H5Fopen" ELSE "none"
    /\ IF \/ "H5Fopen" \in F
          \/ ~exists
          \/ (Access(mode) = "H5F_ACC_RDWR" /\ fmode = "H5F_ACC_RDONLY")
       THEN /\ res' = "OpenError"
            /\ ids' = WithVersion(ids, ver)
            /\ UNCHANGED fmode
       ELSE /\ res' = "ok"
            /\ ids' = Open(WithVersion(ids, ver), FileId(Access(mode)))
            /\ fmode' = IF fmode = "closed" THEN Access(mode) ELSE fmode
    /\ UNCHANGED <<exists, tree, saved>>

\* H5Fclose / H5Gclose: the status is ignored; an identifier of another kind
\* is not closed.
CloseKind(h, k) ==
    /\ ids' = IF h.kind = k THEN Close(ids, h) ELSE ids
    /\ fmode' = StillOpen(ids', fmode)
    /\ res' = "ok"
    /\ hit' = "none"
    /\ out' = <<>>
    /\ UNCHANGED <<exists, tree, saved>>

CloseFile(h) ==
    /\ call' = Call("closeFile", h, "", "none", <<>>)
    /\ CloseKind(h, "file")

CloseGroup(h) ==
    /\ call' = Call("closeGroup", h, "", "none", <<>>)
    /\ CloseKind(h, "group")

\* What H5Gcreate and H5Dcreate refuse: a name already linked under the
\* parent, or a parent reached through a read-only file handle.
CreateRefused(h, p) == p \in DOMAIN tree \/ h.mode = "H5F_ACC_RDONLY"

\* createGroup without the test of groupHandle < 0.
CreateGroupUnchecked(h, n) ==
    LET p == Append(h.path, n)
    IN  /\ call' = Call("createGroup", h, n, "none", <<>>)
        /\ out' = <<>>
        /\ hit' = "none"
        /\ res' = "ok"
        /\ IF CreateRefused(h, p)
           THEN UNCHANGED <<ids, tree>>
           ELSE /\ ids' = Open(ids, GroupId(p, h.mode))
                /\ tree' = Link(tree, p, Group)
        /\ UNCHANGED <<exists, fmode, saved>>

CreateGroup(h, n) ==
    LET p == Append(h.path, n)
    IN  /\ call' = Call("createGroup", h, n, "none", <<>>)
        /\ out' = <<>>
        /\ hit' = "none"
        /\ IF CreateRefused(h, p)
           THEN /\ res' = "CreationError"
                /\ UNCHANGED <<ids, tree>>
           ELSE /\ res' = "ok"
                /\ ids' = Open(ids, GroupId(p, h.mode))
                /\ tree' = Link(tree, p, Group)
        /\ UNCHANGED <<exists, fmode, saved>>

OpenGroup(h, n) ==
    LET p == Append(h.path, n)
    IN  /\ call' = Call("openGroup", h, n, "none", <<>>)
        /\ out' = <<>>
        /\ hit' = "none"
        /\ IF p \in DOMAIN tree /\ tree[p].kind = "group"
           THEN /\ res' = "ok"
                /\ ids' = Open(ids, GroupId(p, h.mode))
           ELSE /\ res' = "OpenError"
                /\ UNCHANGED ids
        /\ UNCHANGED <<exists, tree, fmode, saved>>

SaveCalls == <<"H5Screate_simple", "H5Dcreate", "H5Dwrite">>

\* save without the test of dataset < 0: H5Dwrite is called on the invalid
\* identifier and fails.
SaveUncheckedCreate(h, n, T, v, F) ==
    LET p == Append(h.path, n)
        withSpace == Open(ids, DataspaceId)
        withDataset == Open(withSpace, DatasetId)
    IN  /\ call' = Call("save", h, n, T, <<>>)
        /\ out' = <<>>
        /\ IF "H5Screate_simple" \in F
           THEN /\ res' = "ShapeError"
                /\ hit' = "H5Screate_simple"
                /\ UNCHANGED <<ids, tree, saved>>
           ELSE IF T \notin Supported
           THEN /\ res' = "ConfigurationError"
                /\ hit' = "none"
                /\ ids' = withSpace
                /\ UNCHANGED <<tree, saved>>
           ELSE IF "H5Dcreate" \in F \/ CreateRefused(h, p)
           THEN /\ res' = "WriteError"
                /\ hit' = IF "H5Dcreate" \in F THEN "H5Dcreate" ELSE "none"
                /\ ids' = Close(withSpace, DataspaceId)
                /\ UNCHANGED <<tree, saved>>
           ELSE IF "H5Dwrite" \in F
           THEN /\ res' = "WriteError"
                /\ hit' = "H5Dwrite"
                /\ ids' = Close(Close(withDataset, DatasetId), DataspaceId)
                /\ tree' = Link(tree, p, Dataset(T, 1, Zeros(Len(v))))
                /\ UNCHANGED saved
           ELSE /\ res' = "ok"
                /\ hit' = "none"
                /\ ids' = withDataset
                /\ tree' = Link(tree, p, Dataset(T, 1, v))
                /\ saved' = Link(saved, p, [type |-> T, data |-> v])
        /\ UNCHANGED <<exists, fmode>>

\* save with neither the test of dataset < 0 nor the test of status < 0.
SaveUnchecked(h, n, T, v, F) ==
    LET p == Append(h.path, n)
        withSpace == Open(ids, DataspaceId)
        withDataset == Open(withSpace, DatasetId)
    IN  /\ call' = Call("save", h, n, T, <<>>)
        /\ out' = <<>>
        /\ IF "H5Screate_simple" \in F
           THEN /\ res' = "ShapeError"
                /\ hit' = "H5Screate_simple"
                /\ UNCHANGED <<ids, tree, saved>>
           ELSE IF T \notin Supported
           THEN /\ res' = "ConfigurationError"
                /\ hit' = "none"
                /\ ids' = withSpace
                /\ UNCHANGED <<tree, saved>>
           ELSE IF "H5Dcreate" \in F \/ CreateRefused(h, p)
           THEN /\ res' = "ok"
                /\ hit' = IF "H5Dcreate" \in F THEN "H5Dcreate" ELSE "none"
                /\ ids' = withSpace
                /\ UNCHANGED <<tree, saved>>
           ELSE IF "H5Dwrite" \in F
           THEN /\ res' = "ok"
                /\ hit' = "H5Dwrite"
                /\ ids' = withDataset
                /\ tree' = Link(tree, p, Dataset(T, 1, Zeros(Len(v))))
                /\ UNCHANGED saved
           ELSE /\ res' = "ok"
                /\ hit' = "none"
                /\ ids' = withDataset
                /\ tree' = Link(tree, p, Dataset(T, 1, v))
                /\ saved' = Link(saved, p, [type |-> T, data |-> v])
        /\ UNCHANGED <<exists, fmode>>

\* save without the H5Dclose and H5Sclose of the status < 0 branch.
SaveNoCloseOnWriteError(h, n, T, v, F) ==
    LET p == Append(h.path, n)
        withSpace == Open(ids, DataspaceId)
        withDataset == Open(withSpace, DatasetId)
    IN  /\ call' = Call("save", h, n, T, <<>>)
        /\ out' = <<>>
        /\ IF "H5Screate_simple" \in F
           THEN /\ res' = "ShapeError"
                /\ hit' = "H5Screate_simple"
                /\ UNCHANGED <<ids, tree, saved>>
           ELSE IF T \notin Supported
           THEN /\ res' = "ConfigurationError"
                /\ hit' = "none"
                /\ ids' = withSpace
                /\ UNCHANGED <<tree, saved>>
           ELSE IF "H5Dcreate" \in F \/ CreateRefused(h, p)
           THEN /\ res' = "CreationError"
                /\ hit' = IF "H5Dcreate" \in F THEN "H5Dcreate" ELSE "none"
                /\ ids' = Close(withSpace, DataspaceId)
                /\ UNCHANGED <<tree, saved>>
           ELSE IF "H5Dwrite" \in F
           THEN /\ res' = "WriteError"
                /\ hit' = "H5Dwrite"
                /\ ids' = withDataset
                /\ tree' = Link(tree, p, Dataset(T, 1, Zeros(Len(v))))
                /\ UNCHANGED saved
           ELSE /\ res' = "ok"
                /\ hit' = "none"
                /\ ids' = withDataset
                /\ tree' = Link(tree, p, Dataset(T, 1, v))
                /\ saved' = Link(saved, p, [type |-> T, data |-> v])
        /\ UNCHANGED <<exists, fmode>>

Save(h, n, T, v, F) ==
    LET p == Append(h.path, n)
        withSpace == Open(ids, DataspaceId)
        withDataset == Open(withSpace, DatasetId)
    IN  /\ call' = Call("save", h, n, T, <<>>)
        /\ out' = <<>>
        /\ IF "H5Screate_simple" \in F
           THEN /\ res' = "ShapeError"
                /\ hit' = "H5Screate_simple"
                /\ UNCHANGED <<ids, tree, saved>>
           ELSE IF T \notin Supported
           THEN \* typeMemory.type() throws; the dataspace stays open
                /\ res' = "ConfigurationError"
                /\ hit' = "none"
                /\ ids' = withSpace
                /\ UNCHANGED <<tree, saved>>
           ELSE IF "H5Dcreate" \in F \/ CreateRefused(h, p)
           THEN /\ res' = "CreationError"
                /\ hit' = IF "H5Dcreate" \in F THEN "H5Dcreate" ELSE "none"
                /\ ids' = Close(withSpace, DataspaceId)
                /\ UNCHANGED <<tree, saved>>
           ELSE IF "H5Dwrite" \in F
           THEN \* the dataset was created, with its fill value
                /\ res' = "WriteError"
                /\ hit' = "H5Dwrite"
                /\ ids' = Close(Close(withDataset, DatasetId), DataspaceId)
                /\ tree' = Link(tree, p, Dataset(T, 1, Zeros(Len(v))))
                /\ UNCHANGED saved
           ELSE \* neither H5Dclose nor H5Sclose on this path
                /\ res' = "ok"
                /\ hit' = "none"
                /\ ids' = withDataset
                /\ tree' = Link(tree, p, Dataset(T, 1, v))
                /\ saved' = Link(saved, p, [type |-> T, data |-> v])
        /\ UNCHANGED <<exists, fmode>>

\* The test written as dimension < 1.
RankAtLeastOne(dimension) == dimension >= 1

\* load's test of H5Sget_simple_extent_ndims.
OneDimensional(dimension) == dimension = 1

\* H5Dread into the buffer: the entry's elements, converted to T.
Read(buf, e, T) ==
    [i \in 1..Len(buf) |->
        IF i <= Len(e.data) THEN Convert(e.type, T, e.data[i]) ELSE buf[i]]

LoadCalls == <<"H5Sget_simple_extent_dims", "H5Dread">>

\* H5Dclose(dataset); H5Tclose(typeFile); H5Sclose(filespace)
CloseAll(t) == Close(Close(Close(t, DatasetId), DatatypeId), DataspaceId)

\* load without the test of dataset < 0: the queries on the invalid
\* identifier fail, and the dimension they give is not 1.
LoadUncheckedOpen(h, n, T, o, F) ==
    LET p == Append(h.path, n)
        opened == Open(Open(Open(ids, DatasetId), DatatypeId), DataspaceId)
        size == Len(tree[p].data)
    IN  /\ call' = Call("load", h, n, T, o)
        /\ IF ~(p \in DOMAIN tree /\ tree[p].kind = "dataset")
           THEN /\ res' = "ShapeError"
                /\ hit' = "none"
                /\ out' = o
                /\ UNCHANGED ids
           ELSE IF ~OneDimensional(tree[p].rank)
           THEN /\ res' = "ShapeError"
                /\ hit' = "none"
                /\ out' = o
                /\ ids' = opened
           ELSE IF "H5Sget_simple_extent_dims" \in F
           THEN /\ res' = "ShapeError"
                /\ hit' = "H5Sget_simple_extent_dims"
                /\ out' = o
                /\ ids' = CloseAll(opened)
           ELSE IF T \notin Supported
           THEN /\ res' = "ConfigurationError"
                /\ hit' = "none"
                /\ out' = Resize(o, size)
                /\ ids' = opened
           ELSE IF "H5Dread" \in F
           THEN /\ res' = "ReadError"
                /\ hit' = "H5Dread"
                /\ out' = Resize(o, size)
                /\ ids' = CloseAll(opened)
           ELSE /\ res' = "ok"
                /\ hit' = "none"
                /\ out' = Read(Resize(o, size), tree[p], T)
                /\ ids' = CloseAll(opened)
        /\ fmode' = StillOpen(ids', fmode)
        /\ UNCHANGED <<exists, tree, saved>>

Load(h, n, T, o, F) ==
    LET p == Append(h.path, n)
        opened == Open(Open(Open(ids, DatasetId), DatatypeId), DataspaceId)
        size == Len(tree[p].data)
    IN  /\ call' = Call("load", h, n, T, o)
        /\ IF ~(p \in DOMAIN tree /\ tree[p].kind = "dataset")
           THEN /\ res' = "OpenError"
                /\ hit' = "none"
                /\ out' = o
                /\ UNCHANGED ids
           ELSE IF ~OneDimensional(tree[p].rank)
           THEN \* thrown with the dataset, its type and its dataspace open
                /\ res' = "ShapeError"
                /\ hit' = "none"
                /\ out' = o
                /\ ids' = opened
           ELSE IF "H5Sget_simple_extent_dims" \in F
           THEN /\ res' = "ShapeError"
                /\ hit' = "H5Sget_simple_extent_dims"
                /\ out' = o
                /\ ids' = CloseAll(opened)
           ELSE IF T \notin Supported
           THEN \* HDF5Type<T>().type() throws after the resize
                /\ res' = "ConfigurationError"
                /\ hit' = "none"
                /\ out' = Resize(o, size)
                /\ ids' = opened
           ELSE IF "H5Dread" \in F
           THEN /\ res' = "ReadError"
                /\ hit' = "H5Dread"
                /\ out' = Resize(o, size)
                /\ ids' = CloseAll(opened)
           ELSE /\ res' = "ok"
                /\ hit' = "none"
                /\ out' = Read(Resize(o, size), tree[p], T)
                /\ ids' = CloseAll(opened)
        /\ fmode' = StillOpen(ids', fmode)
        /\ UNCHANGED <<exists, tree, saved>>

\* The bounds: calls that would pass them are not taken.
Bounded ==
    /\ BagCardinality(ids) <= MaxIds
    /\ Cardinality(DOMAIN tree) <= MaxObjs

\* The caller is single-threaded: it makes a call when the one before has
\* returned or thrown and it has taken the outcome.
Idle == call = NoCall

Return ==
    /\ ~Idle
    /\ call' = NoCall
    /\ res' = "ok"
    /\ hit' = "none"
    /\ out' = <<>>
    /\ UNCHANGED <<exists, tree, fmode, ids, saved>>

Next ==
    \/ Idle /\ \E ver \in Versions, F \in Tails(<<"H5Fcreate">>) :
          CreateFile(ver, F) /\ Bounded'
    \/ Idle /\ \E mode \in AccessModes, ver \in Versions :
          \E F \in Tails(<<"H5Fopen">>) : OpenFile(mode, ver, F) /\ Bounded'
    \/ Idle /\ \E h \in Handles : CloseFile(h)
    \/ Idle /\ \E h \in Handles, n \in Names : CreateGroup(h, n) /\ Bounded'
    \/ Idle /\ \E h \in Handles, n \in Names : OpenGroup(h, n) /\ Bounded'
    \/ Idle /\ \E h \in Handles : CloseGroup(h)
    \/ Idle /\ \E h \in Handles, n \in Names, T \in Types :
          \E v \in Vectors(T), F \in Tails(SaveCalls) :
             Save(h, n, T, v, F) /\ Bounded'
    \/ Idle /\ \E h \in Handles, n \in Names, T \in Types :
          \E o \in Outs, F \in Tails(LoadCalls) :
             Load(h, n, T, o, F) /\ Bounded'
    \/ Return

Spec == Init /\ [][Next]_vars

(***************************************************************************)
(* The claims.                                                             *)
(***************************************************************************)

\* The entry the last call addressed, when there is one.
Entry == tree[At(call)]

SaveErrors == {"ShapeError", "CreationError", "WriteError"}

\* C1: round trip. A load that addresses an entry a save wrote, with the
\* element type of that save and with no library call failing for an outside
\* reason, succeeds and leaves in out exactly the saved vector, same length
\* and same elements, whatever vector it was given.
RoundTrip ==
    (/\ call.op = "load"
     /\ At(call) \in DOMAIN saved
     /\ saved[At(call)].type = call.T
     /\ hit = "none")
    => (res = "ok" /\ out = saved[At(call)].data)

RoundTripWitness ==
    /\ call.op = "load"
    /\ res = "ok"
    /\ At(call) \in DOMAIN saved
    /\ saved[At(call)].type = call.T
    /\ out = saved[At(call)].data
    /\ Len(out) > 0
    /\ Len(call.o) > Len(out)

\* C2: load leaves the open identifiers as they were before the call, on
\* every exit path.
LoadReleasesAll == [][call'.op = "load" => ids' = ids]_vars

\* C3: save leaves the open identifiers as they were before the call when it
\* returns successfully and when it fails with the ConfigurationError of the
\* type mapping.
SaveReleasesAll ==
    [][(call'.op = "save" /\ res' \in {"ok", "ConfigurationError"})
          => ids' = ids]_vars

\* C4: a save that fails with ShapeError, CreationError or WriteError leaves
\* the open identifiers as they were before the call; the library call that
\* fails first decides the error (H5Screate_simple: ShapeError, H5Dcreate:
\* CreationError, H5Dwrite: WriteError) and ends the call: nothing is created
\* after a failed H5Screate_simple or H5Dcreate.
SaveFailureReleases ==
    [][call'.op = "save" =>
          /\ (res' \in SaveErrors => ids' = ids)
          /\ (hit' = "H5Screate_simple"
                 => (res' = "ShapeError" /\ tree' = tree))
          /\ (hit' = "H5Dcreate" => (res' = "CreationError" /\ tree' = tree))
          /\ (hit' = "H5Dwrite" => res' = "WriteError")
          /\ (res' = "ShapeError" => hit' = "H5Screate_simple")
          /\ (res' = "WriteError" => hit' = "H5Dwrite")]_vars

SaveFailureWitness ==
    /\ call.op = "save"
    /\ res = "WriteError"
    /\ hit = "H5Dwrite"
    /\ DatasetId \notin BagToSet(ids)
    /\ DataspaceId \notin BagToSet(ids)

\* C5 as claimed: a save that fails, with whatever error, leaves no entry
\* that was not there before the call.
SaveAllOrNothing ==
    [][(call'.op = "save" /\ res' # "ok")
          => DOMAIN tree' = DOMAIN tree]_vars

\* C5 as amended: a save that fails with ShapeError, ConfigurationError or
\* CreationError leaves the entries as they were; a save that fails with
\* WriteError leaves the entry it created, a one-dimensional entry of the
\* saved type under the name, and changes no other entry.
SaveFailureEntries ==
    [][(call'.op = "save" /\ res' # "ok") =>
          IF res' = "WriteError"
          THEN /\ At(call') \notin DOMAIN tree
               /\ DOMAIN tree' = DOMAIN tree \cup {At(call')}
               /\ tree'[At(call')].kind = "dataset"
               /\ tree'[At(call')].type = call'.T
               /\ tree'[At(call')].rank = 1
               /\ \A q \in DOMAIN tree : tree'[q] = tree[q]
          ELSE tree' = tree]_vars

SaveFailureEntriesWitness ==
    /\ call.op = "save"
    /\ res = "WriteError"
    /\ At(call) \in DOMAIN tree
    /\ At(call) \notin DOMAIN saved
    /\ Entry.kind = "dataset"

\* C6: dimensionality guard. A load that addresses an entry whose rank is
\* not 1 fails with ShapeError and leaves out as it was given.
RankGuard ==
    (/\ call.op = "load"
     /\ At(call) \in DOMAIN tree
     /\ Entry.kind = "dataset"
     /\ Entry.rank # 1)
    => (res = "ShapeError" /\ out = call.o)

RankGuardWitness ==
    /\ call.op = "load"
    /\ At(call) \in DOMAIN tree
    /\ Entry.kind = "dataset"
    /\ Entry.rank = 2
    /\ res = "ShapeError"
    /\ out = call.o
    /\ Len(out) > 0

\* C7: missing entry. A load of a name with no entry under the parent fails
\* with OpenError and changes nothing the later calls depend on: the open
\* identifiers (the parent handle among them), the file and its entries.
MissingEntry ==
    [][(call'.op = "load" /\ At(call') \notin DOMAIN tree) =>
          /\ res' = "OpenError"
          /\ call'.h \in Handles'
          /\ UNCHANGED <<exists, tree, fmode, ids, saved>>]_vars

MissingEntryWitness ==
    /\ call.op = "load"
    /\ At(call) \notin DOMAIN tree
    /\ res = "OpenError"
    /\ call.h \in Handles

\* C8: duplicate creation. createGroup of a name that is already a group
\* under the parent fails with CreationError, opens no identifier, and leaves
\* every open handle, the first call's among them, and the file as they were.
DuplicateGroup ==
    [][(/\ call'.op = "createGroup"
        /\ At(call') \in DOMAIN tree
        /\ tree[At(call')].kind = "group") =>
          /\ res' = "CreationError"
          /\ ids' = ids
          /\ tree' = tree]_vars

DuplicateGroupWitness ==
    /\ call.op = "createGroup"
    /\ res = "CreationError"
    /\ call.h.mode = "H5F_ACC_RDWR"
    /\ At(call) \in DOMAIN tree
    /\ Entry.kind = "group"
    /\ GroupId(At(call), "H5F_ACC_RDWR") \in Handles

\* C9 as claimed: every save into a handle that openFile returned for
\* READ_ONLY fails with CreationError or WriteError and leaves the entries as
\* they were.
ReadOnlySaveError ==
    [][(call'.op = "save" /\ call'.h = FileId(Access("READ_ONLY"))) =>
          /\ res' \in {"CreationError", "WriteError"}
          /\ tree' = tree]_vars

\* C9 as amended: every save into a handle that openFile returned for
\* READ_ONLY fails and leaves the entries as they were; the error is a
\* CreationError or WriteError when the element type is supported and the
\* dataspace was created, and otherwise the ShapeError or ConfigurationError
\* raised before H5Dcreate is called.
ReadOnlySaveFails ==
    [][(call'.op = "save" /\ call'.h = FileId(Access("READ_ONLY"))) =>
          /\ tree' = tree
          /\ res' \in
               (IF hit' = "H5Screate_simple" THEN {"ShapeError"}
                ELSE IF call'.T \notin Supported THEN {"ConfigurationError"}
                ELSE {"CreationError", "WriteError"})]_vars

ReadOnlySaveWitness ==
    /\ call.op = "save"
    /\ call.h = FileId(Access("READ_ONLY"))
    /\ call.T \in Supported
    /\ hit = "none"
    /\ res = "CreationError"

\* C10: createFile and openFile open nothing but the file handle they return:
\* one more identifier, the file's, after a successful call, none after a
\* failed one.
FileOpsOpenOnlyTheHandle ==
    [][call'.op \in {"createFile", "openFile"} =>
          IF res' = "ok"
          THEN \E m \in {Access(a) : a \in AccessModes} :
                  ids' = Open(ids, FileId(m))
          ELSE ids' = ids]_vars
====
